---- MODULE Spec2Model ----
(***************************************************************************)
(* Model of src/server.js: the Express relay server of                     *)
(* peer-pulse-presentation.  Each request is a handler instance.  A request *)
(* that arrives runs through the middleware into its handler, and the      *)
(* handler runs to its next await, in one step (Node's run-to-completion   *)
(* scheduling); the handlers of concurrent requests interleave at the      *)
(* awaits.                                                                 *)
(*                                                                         *)
(* JavaScript values are encoded as records: an object is a record of its  *)
(* own properties, an array is [items |-> <<...>>], undefined is           *)
(* Undefined.  A body field that is absent from the JSON body is absent    *)
(* from the record.                                                        *)
(***************************************************************************)
EXTENDS Integers, Sequences, FiniteSets, TLC

\* Number of requests the clients send in one run.
MaxRequests == 2
Reqs == 1..MaxRequests

VARIABLES
  readyState,   \* mongoose.connection.readyState: 0 disconnected, 1 connected, 2 connecting
  store,        \* the Evaluation collection, in insertion order
  counter,      \* httpRequestCounter: label tuple -> count
  req,          \* req[r]: the request handler instance r serves
  pc,           \* pc[r]: the await (or stage) handler r is at
  calls,        \* calls[r]: the mongoose and pusher calls handler r has issued, in order
  res           \* res[r]: the response handler r has sent

vars == <<readyState, store, counter, req, pc, calls, res>>

------------------------------------------------------------------------------
\* JavaScript values

Undefined == [undefined |-> TRUE]
NoReq == [none |-> TRUE]
NoRes == [none |-> TRUE]

Teams == {"T1", "constructor"}

\* Property names every object literal {} inherits from Object.prototype.
ObjectPrototypeKeys ==
  {"constructor", "__proto__", "hasOwnProperty", "isPrototypeOf",
   "propertyIsEnumerable", "toLocaleString", "toString", "valueOf"}

SubmissionPayload(t) ==
  [team |-> t, evaluator |-> "U1",
   evaluation |-> [ratings |-> "r1", feedback |-> "f1"]]

ListPayload == [items |-> <<"row1", "row2">>]

Payloads == {SubmissionPayload(t) : t \in Teams} \cup {ListPayload}

RelayEvents ==
  {"presentationStarting", "presentationStarted", "presentationEnded",
   "timeSync", "evaluationForm", "presentationReset"}

BulkTypes == {"participants", "teams"}

\* The JSON bodies posted to /api/upload; each of event, data and type may be absent.
RelayBodies ==
       {[event |-> e, data |-> SubmissionPayload("T1")] : e \in RelayEvents}
  \cup {[event |-> "timeSync", data |-> ListPayload], [event |-> "timeSync"]}

SubmissionBodies ==
       {[event |-> "evaluationSubmitted", data |-> d] : d \in Payloads}
  \cup {[event |-> "evaluationSubmitted"]}

UnknownBodies ==
  {[event |-> "unknownEvent", data |-> SubmissionPayload("T1")],
   [data |-> SubmissionPayload("T1")]}

BulkBodies ==
       {[data |-> ListPayload, type |-> t] : t \in BulkTypes}
  \cup {[event |-> e, data |-> ListPayload, type |-> "teams"] :
          e \in {"evaluationSubmitted", "timeSync", "unknownEvent"}}
  \cup {[event |-> "evaluationSubmitted", data |-> SubmissionPayload("T1"),
          type |-> "participants"],
         [type |-> "teams"]}

Bodies == RelayBodies \cup SubmissionBodies \cup UnknownBodies \cup BulkBodies

\* Faulty variants of the dispatch tests, used to show that the properties below
\* depend on them: a relay case label left out, the default label placed
\* with the relay cases, and the type test made only for bodies with no event.
IsRelayWithoutForm(body) ==
  "event" \in DOMAIN body /\ body.event \in RelayEvents \ {"evaluationForm"}
IsRelayByDefault(body) ==
  "event" \in DOMAIN body /\ body.event # "evaluationSubmitted"
IsBulkWithoutEvent(body) ==
  "type" \in DOMAIN body /\ body.type \in BulkTypes /\ "event" \notin DOMAIN body

\* const { event, data, type } = req.body
DataOf(body) == IF "data" \in DOMAIN body THEN body.data ELSE Undefined
HasEvent(body, e) == "event" \in DOMAIN body /\ body.event = e
IsRelay(body) == "event" \in DOMAIN body /\ body.event \in RelayEvents
IsSubmission(body) == HasEvent(body, "evaluationSubmitted")
IsBulk(body) == "type" \in DOMAIN body /\ body.type \in BulkTypes

\* Reading a property of undefined throws a TypeError.
ThrowsOnLength(d) == d = Undefined
\* data.length: the element count of an array, undefined for any other object.
HasLength(d) == "items" \in DOMAIN d
LengthOf(d) == Len(d.items)

\* data.team, data.evaluator, data.evaluation.ratings, data.evaluation.feedback
ThrowsOnCreateArgs(d) == d = Undefined \/ "evaluation" \notin DOMAIN d

------------------------------------------------------------------------------
\* Routes

UploadPath == "/api/upload"
FeedbacksPath == "/feedbacks"
MetricsPath == "/api/metrics"
SimplePaths == {"/api/test", "/api/", "/api/pusher-auth", "/health", "/index.html"}

MethodOf(path) == IF path \in {UploadPath, "/api/pusher-auth"} THEN "POST" ELSE "GET"

\* The requests the clients send.
UploadRequest(b) == [method |-> "POST", path |-> UploadPath, body |-> b]
Request(p) == [method |-> MethodOf(p), path |-> p]

------------------------------------------------------------------------------
\* Initial state

Init ==
  /\ readyState = 0
  /\ store = <<>>
  /\ counter = [k \in {} |-> 0]
  /\ req = [r \in Reqs |-> NoReq]
  /\ pc = [r \in Reqs |-> "idle"]
  /\ calls = [r \in Reqs |-> <<>>]
  /\ res = [r \in Reqs |-> NoRes]

------------------------------------------------------------------------------
\* Helpers of the handlers

\* The calls log cs with call c issued by handler r.
Call(cs, r, c) == [cs EXCEPT ![r] = Append(@, c)]

\* The calls log with the last call of handler r settled.
Settle(r, fields) == [calls EXCEPT ![r][Len(calls[r])] = fields @@ @]
Resolved == [settled |-> "resolved"]
Rejected == [settled |-> "rejected"]

\* res.status(s).json(b): the handler of r is over, the response is on its way.
Respond(r, status, body) ==
  /\ res' = [res EXCEPT ![r] = [status |-> status, body |-> body]]
  /\ pc' = [pc EXCEPT ![r] = "responded"]

\* The handler of r awaits the call it has just issued.
Await(r, stage) ==
  /\ pc' = [pc EXCEPT ![r] = stage]
  /\ UNCHANGED res

InternalServerError == [message |-> "Internal server error"]

\* pusher.trigger('presentation', event, data)
Trigger(event, data) ==
  [op |-> "trigger", channel |-> "presentation", event |-> event, data |-> data]

\* A database operation is answered only over an open connection; until then
\* mongoose buffers it, and it can only fail.
CanAnswer == readyState = 1

------------------------------------------------------------------------------
\* Arrival of a request: the metrics middleware registers its finish listener
\* and passes the request on to its route's handler.  Requests take the handler
\* instances in order.

Free(r) ==
  /\ pc[r] = "idle"
  /\ r > 1 => pc[r - 1] # "idle"

Arrives(r, q) == req' = [req EXCEPT ![r] = q]

\* Faulty variant of Inc: the count is set, not added to.
IncOnce(c, labels) == (labels :> 1) @@ c

\* res.on('finish'): the response has been handed off; the counter is incremented.
LabelsOf(r) == <<req[r].method, req[r].path, ToString(res[r].status)>>

Inc(c, labels) ==
  IF labels \in DOMAIN c THEN [c EXCEPT ![labels] = @ + 1] ELSE (labels :> 1) @@ c

\* With the listener run, the request and its response are released.
Finish(r) ==
  /\ pc[r] = "responded"
  /\ counter' = Inc(counter, LabelsOf(r))
  /\ pc' = [pc EXCEPT ![r] = "done"]
  /\ req' = [req EXCEPT ![r] = NoReq]
  /\ calls' = [calls EXCEPT ![r] = <<>>]
  /\ res' = [res EXCEPT ![r] = NoRes]
  /\ UNCHANGED <<readyState, store>>

------------------------------------------------------------------------------
\* POST /api/upload, from const { event, data, type } = req.body on.  cs is the
\* calls log as the handler resumes.

\* The acknowledgment of a bulk upload; JSON omits a count that is undefined.
BulkAck(type, data) ==
  IF HasLength(data)
    THEN [message |-> "Successfully processed upload", type |-> type,
          count |-> LengthOf(data)]
    ELSE [message |-> "Successfully processed upload", type |-> type]

\* The argument of Evaluation.create.  submittedAt, the wall-clock time of the
\* call, is left out: nothing in the server reads it back.
CreateArgs(data) ==
  [teamName |-> data.team, evaluatorUSN |-> data.evaluator,
   ratings |-> data.evaluation.ratings, feedback |-> data.evaluation.feedback]

UploadDispatch(r, body, cs) ==
     LET data == DataOf(body)
     IN  IF IsBulk(body)
           THEN /\ IF ThrowsOnLength(data)
                     THEN Respond(r, 500, InternalServerError)
                     ELSE Respond(r, 200, BulkAck(body.type, data))
                /\ calls' = cs
         ELSE IF IsRelay(body)
           THEN /\ calls' = Call(cs, r, Trigger(body.event, data))
                /\ Await(r, "lastTrigger")
         ELSE IF IsSubmission(body)
           THEN IF ThrowsOnCreateArgs(data)
                  THEN /\ Respond(r, 500, InternalServerError)
                       /\ calls' = cs
                  ELSE /\ calls' = Call(cs, r, [op |-> "create", doc |-> CreateArgs(data)])
                       /\ Await(r, "create")
         ELSE /\ Respond(r, 400, [message |-> "Invalid event type"])
              /\ calls' = cs

\* Faulty variant of Inserted: a team's evaluation by the same evaluator is
\* replaced.
Upserted(st, args) ==
  IF \E i \in DOMAIN st :
       st[i].teamName = args.teamName /\ st[i].evaluatorUSN = args.evaluatorUSN
    THEN [i \in DOMAIN st |->
            IF st[i].teamName = args.teamName /\ st[i].evaluatorUSN = args.evaluatorUSN
              THEN [id |-> st[i].id] @@ args ELSE st[i]]
    ELSE Append(st, [id |-> Len(st) + 1] @@ args)

\* The document the database stores for a create call.
Inserted(st, args) == Append(st, [id |-> Len(st) + 1] @@ args)

\* Faulty variant of WithEvaluationId: the payload is not spread into the event.
OnlyEvaluationId(data, id) == [evaluationId |-> id]

\* { ...data, evaluationId: evaluation._id }
WithEvaluationId(data, id) == [evaluationId |-> id] @@ data

\* Evaluation.create resolves: the document is stored, and the handler
\* broadcasts the stored evaluation.
CreateResolves(r) ==
  /\ pc[r] = "create"
  /\ CanAnswer
  /\ LET data == DataOf(req[r].body)
         id == Len(store) + 1
     IN  /\ store' = Inserted(store, calls[r][Len(calls[r])].doc)
         /\ calls' = Call(Settle(r, [settled |-> "resolved", id |-> id]), r,
                          Trigger("evaluationSubmitted", WithEvaluationId(data, id)))
         /\ Await(r, "submittedTrigger")
  /\ UNCHANGED <<readyState, counter, req>>

\* A query sent to the database; since is the number of documents stored as it
\* is sent.
FindCall(filter) == [op |-> "find", filter |-> filter, since |-> Len(store)]

\* The 'evaluationSubmitted' broadcast resolves: the handler queries the team.
TeamFilter(data) == [teamName |-> data.team]

SubmittedTriggerResolves(r) ==
  /\ pc[r] = "submittedTrigger"
  /\ calls' = Call(Settle(r, Resolved), r,
                   FindCall(TeamFilter(DataOf(req[r].body))))
  /\ Await(r, "find")
  /\ UNCHANGED <<readyState, store, counter, req>>

\* Faulty variant of Find: the filter is ignored.
FindIgnoringFilter(st, filter) == st

\* Evaluation.find(filter): the stored documents the filter matches, in order.
Find(st, filter) ==
  SelectSeq(st, LAMBDA d : \A f \in DOMAIN filter : d[f] = filter[f])

\* The answers a pending query can get: the database runs it at some moment
\* between the call and the answer, over the documents stored at that moment.
Answers(query) ==
  {Find(SubSeq(store, 1, n), query.filter) : n \in query.since..Len(store)}

\* Evaluation.find({ teamName }) resolves: the handler broadcasts the team's list.
FindResolves(r) ==
  /\ pc[r] = "find"
  /\ CanAnswer
  /\ \E found \in Answers(calls[r][Len(calls[r])]) :
       calls' = Call(Settle(r, [settled |-> "resolved", docs |-> found]), r,
                     Trigger("teamEvaluations",
                             [team |-> DataOf(req[r].body).team,
                              evaluations |-> found]))
  /\ Await(r, "lastTrigger")
  /\ UNCHANGED <<readyState, store, counter, req>>

\* The last broadcast of the request (a relay event's, or 'teamEvaluations')
\* resolves: line 152 answers 200.
LastTriggerResolves(r) ==
  /\ pc[r] = "lastTrigger"
  /\ calls' = Settle(r, Resolved)
  /\ Respond(r, 200, [message |-> "Event processed successfully"])
  /\ UNCHANGED <<readyState, store, counter, req>>

\* Faulty variant of UploadCallRejects: the catch deletes the record the request
\* created.
UploadCallRejectsRollingBack(r) ==
  /\ pc[r] \in {"create", "submittedTrigger", "find", "lastTrigger"}
  /\ calls' = [calls EXCEPT ![r][Len(calls[r])] = [settled |-> "rejected"] @@ @]
  /\ res' = [res EXCEPT ![r] =
               [status |-> 500, body |-> [message |-> "Internal server error"]]]
  /\ pc' = [pc EXCEPT ![r] = "responded"]
  /\ store' = SelectSeq(store, LAMBDA d :
                 \A i \in DOMAIN calls[r] :
                   "id" \in DOMAIN calls[r][i] => d.id # calls[r][i].id)
  /\ UNCHANGED <<readyState, counter, req>>

AwaitedInUpload == {"create", "submittedTrigger", "find", "lastTrigger"}

\* An awaited create, find or trigger rejects: the catch of the handler answers 500.
UploadCallRejects(r) ==
  /\ pc[r] \in AwaitedInUpload
  /\ calls' = Settle(r, Rejected)
  /\ Respond(r, 500, InternalServerError)
  /\ UNCHANGED <<readyState, store, counter, req>>

------------------------------------------------------------------------------
\* GET /feedbacks, from Evaluation.find({}) on

FeedbacksFind(r, cs) ==
  /\ calls' = Call(cs, r, FindCall([k \in {} |-> 0]))
  /\ Await(r, "findAll")

\* The element pushed for one evaluation.
Feedback(e) ==
  [evaluatorUSN |-> e.evaluatorUSN, ratings |-> e.ratings, feedback |-> e.feedback]

\* if (!acc[k]) acc[k] = []: acc[k] is truthy when k is an own property (an array)
\* and also when {} inherits k from Object.prototype (a function or an object).
Truthy(acc, k) == k \in DOMAIN acc \/ k \in ObjectPrototypeKeys

\* evaluations.reduce(...): the grouped object, or the TypeError of calling push
\* on a value that is no array.
RECURSIVE Reduce(_, _, _)
Reduce(evaluations, i, acc) ==
  IF i > Len(evaluations) THEN [threw |-> FALSE, value |-> acc]
  ELSE LET k == evaluations[i].teamName
           acc1 == IF Truthy(acc, k) THEN acc ELSE (k :> <<>>) @@ acc
       IN  IF k \in DOMAIN acc1
             THEN Reduce(evaluations, i + 1,
                         [acc1 EXCEPT ![k] = Append(@, Feedback(evaluations[i]))])
             ELSE [threw |-> TRUE]

GroupedFeedbacks(evaluations) == Reduce(evaluations, 1, [k \in {} |-> <<>>])

\* Evaluation.find({}) resolves: the evaluations are grouped and sent.
FindAllResolves(r) ==
  /\ pc[r] = "findAll"
  /\ CanAnswer
  /\ \E found \in Answers(calls[r][Len(calls[r])]) :
       LET grouped == GroupedFeedbacks(found)
       IN  /\ calls' = Settle(r, [settled |-> "resolved", docs |-> found])
           /\ IF grouped.threw
                THEN Respond(r, 500, InternalServerError)
                ELSE Respond(r, 200, grouped.value)
  /\ UNCHANGED <<readyState, store, counter, req>>

\* Evaluation.find({}) rejects: the catch of the handler answers 500.
FindAllRejects(r) ==
  /\ pc[r] = "findAll"
  /\ calls' = Settle(r, Rejected)
  /\ Respond(r, 500, InternalServerError)
  /\ UNCHANGED <<readyState, store, counter, req>>

------------------------------------------------------------------------------
\* connectDB, awaited first by the handlers of /api/upload and /feedbacks

\* Faulty variant of ShouldConnect: connect unless the connection is open.
ShouldConnectUnlessOpen(rs) == rs # 1

\* The condition under which connectDB calls mongoose.connect.
ShouldConnect(rs) == rs = 0

\* The handler of request q goes on after await connectDB(), in the same turn
\* of the loop.
AfterConnectDB(r, q, cs) ==
  IF q.path = UploadPath
    THEN UploadDispatch(r, q.body, cs)
    ELSE FeedbacksFind(r, cs)

\* connectDB calls mongoose.connect, which marks the connection as connecting
\* before it yields; with the connection connecting or open, connectDB returns
\* at once and the handler goes on.
ConnectDB(r, q) ==
  IF ShouldConnect(readyState)
    THEN /\ readyState' = 2
         /\ calls' = Call(calls, r, [op |-> "connect"])
         /\ Await(r, "connecting")
    ELSE /\ AfterConnectDB(r, q, calls)
         /\ UNCHANGED readyState

\* A POST /api/upload arrives.
Upload(r) ==
  /\ Free(r)
  /\ \E b \in Bodies :
       /\ Arrives(r, UploadRequest(b))
       /\ ConnectDB(r, UploadRequest(b))
  /\ UNCHANGED <<store, counter>>

\* A GET /feedbacks arrives.
Feedbacks(r) ==
  /\ Free(r)
  /\ Arrives(r, Request(FeedbacksPath))
  /\ ConnectDB(r, Request(FeedbacksPath))
  /\ UNCHANGED <<store, counter>>

\* mongoose.connect resolves: the connection is open and the handler goes on.
ConnectResolves(r) ==
  /\ pc[r] = "connecting"
  /\ readyState' = 1
  /\ AfterConnectDB(r, req[r], Settle(r, Resolved))
  /\ UNCHANGED <<store, counter, req>>

\* mongoose.connect rejects: the connection is disconnected again, connectDB
\* rethrows and the catch of the handler answers 500.
ConnectRejects(r) ==
  /\ pc[r] = "connecting"
  /\ readyState' = 0
  /\ calls' = Settle(r, Rejected)
  /\ Respond(r, 500, InternalServerError)
  /\ UNCHANGED <<store, counter, req>>

------------------------------------------------------------------------------
\* GET /api/metrics: register.metrics() renders a sample line per label tuple.

MetricsText(c) == {<<"http_requests_total", labels, c[labels]>> : labels \in DOMAIN c}

Metrics(r) ==
  /\ Free(r)
  /\ Arrives(r, Request(MetricsPath))
  /\ Respond(r, 200, MetricsText(counter))
  /\ UNCHANGED <<readyState, store, counter, calls>>

\* /api/test, /api/, /api/pusher-auth (given a well-formed socket id), /health
\* and the static index.html answer at once; none of them touches the database,
\* the broker's channel or the counter.
SimpleBody(path) ==
  CASE path \in {"/api/test", "/api/"} -> [message |-> "Hello World"]
    [] path = "/health" -> [status |-> "ok"]
    [] path = "/api/pusher-auth" -> [auth |-> "signature"]
    [] OTHER -> [file |-> "dist/index.html"]

SimpleRoute(r) ==
  /\ Free(r)
  /\ \E p \in SimplePaths :
       /\ Arrives(r, Request(p))
       /\ Respond(r, 200, SimpleBody(p))
  /\ UNCHANGED <<readyState, store, counter, calls>>

------------------------------------------------------------------------------

Next ==
  \/ \E r \in Reqs : Upload(r)
  \/ \E r \in Reqs : Feedbacks(r)
  \/ \E r \in Reqs : ConnectResolves(r)
  \/ \E r \in Reqs : ConnectRejects(r)
  \/ \E r \in Reqs : CreateResolves(r)
  \/ \E r \in Reqs : SubmittedTriggerResolves(r)
  \/ \E r \in Reqs : FindResolves(r)
  \/ \E r \in Reqs : LastTriggerResolves(r)
  \/ \E r \in Reqs : UploadCallRejects(r)
  \/ \E r \in Reqs : FindAllResolves(r)
  \/ \E r \in Reqs : FindAllRejects(r)
  \/ \E r \in Reqs : Metrics(r)
  \/ \E r \in Reqs : SimpleRoute(r)
  \/ \E r \in Reqs : Finish(r)

Spec == Init /\ [][Next]_vars

------------------------------------------------------------------------------
\* Vocabulary of the properties

\* The request of r is being served or has been answered (not yet finished).
Active(r) == pc[r] \notin {"idle", "done"}
Answered(r) == pc[r] = "responded"
UploadOf(r) == Active(r) /\ req[r].path = UploadPath

Range(seq) == {seq[i] : i \in DOMAIN seq}
Outcome(c) == IF "settled" \in DOMAIN c THEN c.settled ELSE "pending"

\* The calls of r with one of the given operations, in the order issued.
Ops(r, ops) == SelectSeq(calls[r], LAMBDA c : c.op \in ops)
Broadcasts(r) == Ops(r, {"trigger"})
EvaluationCalls(r) == Ops(r, {"create", "find"})
ConnectFailed(r) ==
  \E c \in Range(calls[r]) : c.op = "connect" /\ Outcome(c) = "rejected"

\* The body's type discriminator marks a bulk upload.
BulkTyped(body) ==
  "type" \in DOMAIN body /\ (body.type = "participants" \/ body.type = "teams")
EventIn(body, names) == "event" \in DOMAIN body /\ body.event \in names
PayloadOf(body) == IF "data" \in DOMAIN body THEN body.data ELSE Undefined

SimpleRelayNames ==
  {"presentationStarting", "presentationStarted", "presentationEnded",
   "timeSync", "evaluationForm", "presentationReset"}
EnumeratedNames == SimpleRelayNames \cup {"evaluationSubmitted"}

GenericError(r) ==
  res[r] = [status |-> 500, body |-> [message |-> "Internal server error"]]

------------------------------------------------------------------------------
\* C1: simple relay events

RelayCase(r) ==
  /\ UploadOf(r) /\ Answered(r)
  /\ ~BulkTyped(req[r].body)
  /\ EventIn(req[r].body, SimpleRelayNames)

RelayedOnce(r) ==
  /\ Len(Broadcasts(r)) = 1
  /\ LET b == Broadcasts(r)[1]
     IN  /\ b.channel = "presentation"
         /\ b.event = req[r].body.event
         /\ b.data = PayloadOf(req[r].body)
         /\ Outcome(b) = "resolved" => res[r].status = 200
  /\ EvaluationCalls(r) = <<>>

\* C1 as stated: every answered relay request (no bulk type, one of the six relay
\* event names) has issued exactly one broadcast on 'presentation' with its event
\* name and its payload unchanged, no Evaluation create or find, and is answered
\* 200 when the broadcast succeeded.
C1_RelaysAlways == \A r \in Reqs : RelayCase(r) => RelayedOnce(r)

\* C1, amended: the same when connectDB does not throw; when it throws, the
\* request issues no broadcast and no Evaluation call and is answered 500.
C1_RelaysUnlessConnectFails ==
  \A r \in Reqs :
    RelayCase(r) =>
      IF ConnectFailed(r)
        THEN Broadcasts(r) = <<>> /\ EvaluationCalls(r) = <<>> /\ GenericError(r)
        ELSE RelayedOnce(r)

C1_Witness ==
  \E r \in Reqs :
    /\ RelayCase(r)
    /\ ~ConnectFailed(r)
    /\ res[r].status = 200
    /\ PayloadOf(req[r].body) # Undefined

------------------------------------------------------------------------------
\* C2: the submission sequence

SubmissionEvent(r) == UploadOf(r) /\ EventIn(req[r].body, {"evaluationSubmitted"})
SubmissionCase(r) == SubmissionEvent(r) /\ ~BulkTyped(req[r].body)

OpSequence(r) ==
  LET cs == Ops(r, {"create", "find", "trigger"}) IN [i \in DOMAIN cs |-> cs[i].op]

\* The record the create call of r made is in the store, once.
RecordStored(create) ==
  /\ Outcome(create) = "resolved"
  /\ Cardinality({i \in DOMAIN store : store[i].id = create.id}) = 1
  /\ \E i \in DOMAIN store :
       /\ store[i].id = create.id
       /\ \A f \in DOMAIN create.doc : store[i][f] = create.doc[f]

CarriesPayloadAndId(data, payload, id) ==
  /\ DOMAIN data = DOMAIN payload \cup {"evaluationId"}
  /\ \A f \in DOMAIN payload : data[f] = payload[f]
  /\ data.evaluationId = id

FullSubmissionSequence(r) ==
  LET cs == Ops(r, {"create", "find", "trigger"})
      payload == PayloadOf(req[r].body)
  IN  /\ OpSequence(r) = <<"create", "trigger", "find", "trigger">>
      /\ RecordStored(cs[1])
      /\ cs[2].channel = "presentation" /\ cs[2].event = "evaluationSubmitted"
      /\ CarriesPayloadAndId(cs[2].data, payload, cs[1].id)
      /\ cs[3].op = "find" /\ cs[3].filter = [teamName |-> payload.team]
      /\ cs[4].channel = "presentation" /\ cs[4].event = "teamEvaluations"

\* No broadcast of the request precedes the creation of its record.
CreatedBeforeBroadcast(r) ==
  LET cs == Ops(r, {"create", "find", "trigger"})
  IN  Broadcasts(r) # <<>> => cs[1].op = "create" /\ RecordStored(cs[1])

\* C2 as stated: every POST /api/upload with event 'evaluationSubmitted' that is
\* answered 200 has created exactly one record and made the calls create,
\* broadcast 'evaluationSubmitted' (payload merged with the record's id), find by
\* team, broadcast 'teamEvaluations', in this order.
C2_EverySuccessfulSubmission ==
  \A r \in Reqs :
    (SubmissionEvent(r) /\ Answered(r) /\ res[r].status = 200)
      => FullSubmissionSequence(r)

\* C2, amended: the same for the requests that carry no bulk type discriminator;
\* and no such request, successful or not, broadcasts before its record is created.
C2_SuccessfulSubmissionWithoutBulkType ==
  \A r \in Reqs :
    /\ (SubmissionCase(r) /\ Answered(r) /\ res[r].status = 200)
         => FullSubmissionSequence(r)
    /\ SubmissionCase(r) => CreatedBeforeBroadcast(r)

C2_Witness ==
  \E r \in Reqs : SubmissionCase(r) /\ Answered(r) /\ res[r].status = 200

------------------------------------------------------------------------------
\* C3: the team's list under concurrent submissions

\* The request of r has issued its 'teamEvaluations' broadcast.
TeamBroadcastCase(r) ==
  /\ SubmissionCase(r)
  /\ \E b \in Range(Broadcasts(r)) : b.event = "teamEvaluations"

\* C3: the 'teamEvaluations' broadcast of a submission for team T names T and
\* lists every record of T stored up to and including the request's own record,
\* and no record of another team.
C3_TeamListComplete ==
  \A r \in Reqs :
    TeamBroadcastCase(r) =>
      LET team == req[r].body.data.team
          own == Ops(r, {"create"})[1].id
          b == CHOOSE b \in Range(Broadcasts(r)) : b.event = "teamEvaluations"
          listed == Range(b.data.evaluations)
      IN  /\ b.data.team = team
          /\ \A d \in listed : d.teamName = team
          /\ \E p \in DOMAIN store :
               /\ store[p].id = own
               /\ \A i \in 1..p : store[i].teamName = team => store[i] \in listed

C3_Witness ==
  \E r \in Reqs :
    /\ TeamBroadcastCase(r)
    /\ \E b \in Range(Broadcasts(r)) :
         b.event = "teamEvaluations" /\ Len(b.data.evaluations) >= 2

------------------------------------------------------------------------------
\* C4: unrecognized event names

UnknownEventCase(r) ==
  /\ UploadOf(r) /\ Answered(r)
  /\ ~BulkTyped(req[r].body)
  /\ ~EventIn(req[r].body, EnumeratedNames)

NothingDone(r) == Broadcasts(r) = <<>> /\ EvaluationCalls(r) = <<>>

\* C4 as stated: an event name outside the enumerated set (no bulk type) is
\* answered 400, with no broadcast and no create or find call, whatever the state
\* of the database connection and of the broker.
C4_UnknownEventAlways400 ==
  \A r \in Reqs : UnknownEventCase(r) => res[r].status = 400 /\ NothingDone(r)

\* C4, amended: it is answered 400 when connectDB does not throw and 500 when it
\* throws, in both cases with no broadcast and no create or find call.
C4_UnknownEvent400UnlessConnectFails ==
  \A r \in Reqs :
    UnknownEventCase(r) =>
      /\ NothingDone(r)
      /\ IF ConnectFailed(r)
           THEN GenericError(r)
           ELSE res[r] = [status |-> 400, body |-> [message |-> "Invalid event type"]]

C4_Witness ==
  \E r \in Reqs : UnknownEventCase(r) /\ ~ConnectFailed(r) /\ res[r].status = 400

------------------------------------------------------------------------------
\* C5: bulk uploads

BulkCase(r) == UploadOf(r) /\ Answered(r) /\ BulkTyped(req[r].body)

IsList(payload) == "items" \in DOMAIN payload

AcknowledgedWithCount(r) ==
  /\ res[r].status = 200
  /\ "count" \in DOMAIN res[r].body
  /\ IsList(PayloadOf(req[r].body))
  /\ res[r].body.count = Len(PayloadOf(req[r].body).items)

------------------------------------------------------------------------------
\* C6: failures are terminal, without rollback

\* C6: in a POST /api/upload a rejected connect, create, find or broadcast is the
\* last call the request makes and the request is answered 500 with the generic
\* message, whichever call it was; a record whose create resolved is in the store
\* whatever happens to the later calls.
C6_FailureIsTerminal ==
  \A r \in Reqs :
    UploadOf(r) =>
      /\ \A i \in DOMAIN calls[r] :
           Outcome(calls[r][i]) = "rejected" =>
             i = Len(calls[r]) /\ Answered(r) /\ GenericError(r)
      /\ \A c \in Range(Ops(r, {"create"})) :
           Outcome(c) = "resolved" => RecordStored(c)

C6_Witness ==
  \E r \in Reqs :
    /\ UploadOf(r) /\ Answered(r) /\ GenericError(r)
    /\ \E c \in Range(Ops(r, {"create"})) : RecordStored(c)
    /\ \E b \in Range(Broadcasts(r)) : Outcome(b) = "rejected"

------------------------------------------------------------------------------
\* C7: the collection is append-only

\* The create call of r resolves in this step.
CreateSucceeds(r) ==
  /\ pc[r] = "create"
  /\ \E c \in Range(calls'[r]) : c.op = "create" /\ Outcome(c) = "resolved"

\* C7: in every step the stored records stay as they are, in place; the
\* collection grows by exactly one record in a step in which the create of an
\* 'evaluationSubmitted' request resolves, and is unchanged in every other step.
C7_AppendOnly ==
  [][/\ Len(store') >= Len(store)
     /\ SubSeq(store', 1, Len(store)) = store
     /\ Len(store') - Len(store) = Cardinality({r \in Reqs : CreateSucceeds(r)})
     /\ \A r \in Reqs :
          CreateSucceeds(r) => EventIn(req[r].body, {"evaluationSubmitted"})]_vars

C7_Witness ==
  /\ Len(store) = 2
  /\ store[1].teamName = store[2].teamName
  /\ \A r \in Reqs : pc[r] = "done"

------------------------------------------------------------------------------
\* C8: GET /feedbacks

\* The collection as the find of r returned it.
FeedbacksCase(r) ==
  /\ Active(r) /\ req[r].path = FeedbacksPath /\ Answered(r)
  /\ \E c \in Range(calls[r]) : c.op = "find" /\ Outcome(c) = "resolved"

Found(r) == (CHOOSE c \in Range(calls[r]) : c.op = "find").docs

FieldsOf(d) ==
  [evaluatorUSN |-> d.evaluatorUSN, ratings |-> d.ratings, feedback |-> d.feedback]

TeamList(docs, team) ==
  LET of == SelectSeq(docs, LAMBDA d : d.teamName = team)
  IN  [i \in DOMAIN of |-> FieldsOf(of[i])]

\* C8: GET /feedbacks, its query answered, returns 200 and an object with exactly
\* one key per team name among the stored records, each key mapping to that
\* team's records in insertion order.
C8_FeedbacksGrouped ==
  \A r \in Reqs :
    FeedbacksCase(r) =>
      /\ res[r].status = 200
      /\ DOMAIN res[r].body = {d.teamName : d \in Range(Found(r))}
      /\ \A team \in DOMAIN res[r].body : res[r].body[team] = TeamList(Found(r), team)

------------------------------------------------------------------------------
\* C9: the request counter

CountOf(c, labels) == IF labels \in DOMAIN c THEN c[labels] ELSE 0
Finishes(r) == pc[r] = "responded" /\ pc'[r] = "done"
LabelsOfRequest(r) ==
  <<req[r].method, req[r].path,
    CASE res[r].status = 200 -> "200" [] res[r].status = 400 -> "400" [] OTHER -> "500">>

------------------------------------------------------------------------------
\* C10: connectDB is idempotent

Connecting(r) == pc[r] = "connecting"

\* C10: a handler starts a connect attempt only in a step that finds the
\* connection disconnected (readyState 0), and at most one connect attempt is
\* outstanding at any time.
C10_ConnectOnce ==
  [][/\ \A r \in Reqs : (~Connecting(r) /\ Connecting(r)') => readyState = 0
     /\ Cardinality({r \in Reqs : Connecting(r)'}) <= 1]_vars

C10_Witness ==
  \E r, o \in Reqs :
    /\ Connecting(r)
    /\ o > r
    /\ Active(o) /\ ~Connecting(o)
    /\ req[o].path \in {UploadPath, FeedbacksPath}

====
